---- MODULE Spec2Model ----
(***************************************************************************)
(* plot_comparison.py: create_comparison_plots() as a state machine.      *)
(* The routine is one linear pass: read four CSV files, trim the pairs of *)
(* tables to a common shape, reduce the convergence tables to median and  *)
(* quartile series, draw the two panels, save and show the figure, run    *)
(* the Wilcoxon signed-rank test and print the report.  Every statement   *)
(* group of the function is one action; an uncaught exception ends the    *)
(* run (pc = "aborted", fault = the exception's name).                    *)
(*                                                                         *)
(* Numbers.  A cell is a record [def, v]: def = FALSE is pandas' NaN.     *)
(* Table cells hold fitness values as integers.  Medians and quartiles    *)
(* interpolate between two cells with weights 1/4, 1/2, 3/4, so every     *)
(* derived value (series, printed medians) is kept in quarter units:      *)
(* v = 4 * the value pandas computes.                                     *)
(***************************************************************************)
EXTENDS Integers, Sequences, FiniteSets

\* ---------------------------------------------------------------- bounds
\* Most rows (iterations) and columns (runs) of a convergence file.
MaxRows == 2
MaxCols == 2
\* Most rows (runs) of a summary file and the largest final_fitness in one.
MaxSummaryRows == 2
MaxFitness == 2

\* ----------------------------------------------------------- cell values
NaN == [def |-> FALSE, v |-> 0]
Num(n) == [def |-> TRUE, v |-> n]

Min2(a, b) == IF a <= b THEN a ELSE b

RECURSIVE MinOf(_)
\* Python's min() over a non-empty argument list.
MinOf(s) == IF Len(s) = 1 THEN s[1] ELSE Min2(s[1], MinOf(Tail(s)))

RECURSIVE Insert(_, _)
Insert(x, s) ==
    IF s = <<>> THEN <<x>>
    ELSE IF x <= s[1] THEN <<x>> \o s
    ELSE <<s[1]>> \o Insert(x, Tail(s))

RECURSIVE SortSeq(_)
\* The values of s in ascending order (numpy sorts/partitions before it
\* takes an order statistic).
SortSeq(s) == IF s = <<>> THEN <<>> ELSE Insert(s[1], SortSeq(Tail(s)))

\* The defined values of a sequence of cells, in order (skipna=True).
NotNa(cells) ==
    LET d == SelectSeq(cells, LAMBDA c : c.def)
    IN  [i \in 1..Len(d) |-> d[i].v]

\* Series.median / DataFrame.median(axis=1) of one row of cells: NaN when no
\* cell is defined, else the middle value (odd count) or the mean of the
\* two middle values (even count).  Result in quarter units.
Median(cells) ==
    LET s == SortSeq(NotNa(cells))
        n == Len(s)
    IN  IF n = 0 THEN NaN
        ELSE IF n % 2 = 1 THEN Num(4 * s[(n + 1) \div 2])
        ELSE Num(2 * (s[n \div 2] + s[n \div 2 + 1]))

\* Quantile without the sort: the order statistic is read off the cells in
\* column order.
QuantileUnsorted(cells, quarters) ==
    LET s    == NotNa(cells)
        n    == Len(s)
        pos4 == (n - 1) * quarters
        j    == pos4 \div 4
        r    == pos4 % 4
        lo   == s[j + 1]
        hi   == s[Min2(j + 2, n)]
    IN  IF n = 0 THEN NaN ELSE Num(4 * lo + r * (hi - lo))

\* DataFrame.quantile(q, axis=1) of one row of cells for q = quarters/4,
\* linear interpolation: the value at position (n-1)*q of the sorted defined
\* cells.  NaN when no cell is defined.  Result in quarter units.
Quantile(cells, quarters) ==
    LET s    == SortSeq(NotNa(cells))
        n    == Len(s)
        pos4 == (n - 1) * quarters
        j    == pos4 \div 4
        r    == pos4 % 4
        lo   == s[j + 1]
        hi   == s[Min2(j + 2, n)]
    IN  IF n = 0 THEN NaN ELSE Num(4 * lo + r * (hi - lo))

\* ------------------------------------------------- tables (DataFrame)
\* A table is [columns: sequence of column names, rows: sequence of rows],
\* a row being a sequence of cells as wide as columns.
NoTable == [columns |-> <<>>, rows |-> <<>>]

\* len(df)
NRows(t) == Len(t.rows)
\* len(df.columns)
NCols(t) == Len(t.columns)

\* The Python slice s[:n] for n >= 0.
Prefix(s, n) == SubSeq(s, 1, Min2(n, Len(s)))

\* df.iloc[:nrows, :ncols]
ILocTable(t, nrows, ncols) ==
    [columns |-> Prefix(t.columns, ncols),
     rows    |-> [i \in 1..Min2(nrows, NRows(t)) |-> Prefix(t.rows[i], ncols)]]

\* df.iloc[:nrows]
ILocRows(t, nrows) == ILocTable(t, nrows, NCols(t))

\* "name" is a column of df
HasColumn(t, name) == \E j \in 1..NCols(t) : t.columns[j] = name

\* df[name].values, for a column the table has
Column(t, name) ==
    LET j == CHOOSE k \in 1..NCols(t) : t.columns[k] = name
    IN  [i \in 1..NRows(t) |-> t.rows[i][j]]

\* ------------------------------------------------------ series (Series)
\* A series is a sequence of [idx, val]: idx is the row label it was
\* computed from (0-based, as pandas' RangeIndex), val a cell.

\* df.median(axis=1)
DfMedian(t) == [i \in 1..NRows(t) |-> [idx |-> i - 1, val |-> Median(t.rows[i])]]

\* df.quantile(quarters/4, axis=1)
DfQuantile(t, quarters) ==
    [i \in 1..NRows(t) |-> [idx |-> i - 1, val |-> Quantile(t.rows[i], quarters)]]

\* dropna() left out: every entry kept.
DropNaNothing(s) == s

\* series.dropna(): the defined entries, labels kept
DropNa(s) == SelectSeq(s, LAMBDA e : e.val.def)

\* series.iloc[:n]
ILoc(s, n) == Prefix(s, n)

\* series.values: the cells without their labels
Values(s) == [i \in 1..Len(s) |-> s[i].val]

\* range(n)
Range(n) == [i \in 1..n |-> i - 1]

\* ----------------------------------------------------------- input files
\* Column headers of a convergence file, one per run.
RunNames == <<"V1", "V2", "V3", "V4">>

\* The rows a convergence file of c columns may hold: no cell defined; every
\* cell defined, in descending (unsorted) order; only the last run's cell
\* defined.
ConvRows(c) ==
    { [j \in 1..c |-> NaN],
      [j \in 1..c |-> Num(2 * (c + 1 - j))],
      [j \in 1..c |-> IF j = c THEN Num(1) ELSE NaN] }

ConvTables ==
    UNION { { [columns |-> SubSeq(RunNames, 1, c), rows |-> rs] :
                rs \in UNION { [1..r -> ConvRows(c)] : r \in 0..MaxRows } } :
            c \in 1..MaxCols }

\* A summary file with a final_fitness column holding the values ff.
SummaryWith(ff) ==
    [columns |-> <<"run", "final_fitness">>,
     rows    |-> [i \in 1..Len(ff) |-> <<Num(i), Num(ff[i])>>]]

\* A summary file of n rows that lacks the final_fitness column.
SummaryWithout(n) ==
    [columns |-> <<"run">>, rows |-> [i \in 1..n |-> <<Num(i)>>]]

SummaryTables ==
    UNION { { SummaryWith(ff) : ff \in [1..n -> 1..MaxFitness] }
            \cup { SummaryWithout(n) } : n \in 0..MaxSummaryRows }

File(t) == [present |-> TRUE, table |-> t]
Absent == [present |-> FALSE, table |-> NoTable]

FileNames == {"r_conv", "py_conv", "r_summary", "py_summary"}

BaseConv == [columns |-> <<"V1">>, rows |-> << <<Num(1)>> >>]
BaseFiles ==
    [r_conv     |-> File(BaseConv),
     py_conv    |-> File(BaseConv),
     r_summary  |-> File(SummaryWith(<<1>>)),
     py_summary |-> File(SummaryWith(<<MaxFitness>>))]

\* The file systems a run may start from: every pair of convergence files
\* beside fixed summaries, every pair of summary files beside fixed
\* convergence files, and every non-empty set of files missing.
FileSystems ==
    { [BaseFiles EXCEPT !.r_conv = File(a), !.py_conv = File(b)] :
        a \in ConvTables, b \in ConvTables }
    \cup
    { [BaseFiles EXCEPT !.r_summary = File(a), !.py_summary = File(b)] :
        a \in SummaryTables, b \in SummaryTables }
    \cup
    { [f \in FileNames |-> IF f \in gone THEN Absent ELSE BaseFiles[f]] :
        gone \in (SUBSET FileNames) \ {{}} }

\* ------------------------------------------------------------------ state
VARIABLES
    files,       \* the four input files: name -> [present, table]
    pc,          \* the statement group the run is at
    fault,       \* the uncaught exception that ended the run, or "none"
    r_conv, py_conv, r_summary, py_summary,
    fig, ax1, ax2,              \* the figure exists; its two panels
    r_median, r_q25, r_q75, py_median, py_q25, py_q75,
    x_values,
    image,       \* r_vs_python_comparison.png has been written
    shown,       \* the figure has been displayed
    statistic, p_value,
    stdout       \* the printed lines

tables == <<r_conv, py_conv, r_summary, py_summary>>
series == <<r_median, r_q25, r_q75, py_median, py_q25, py_q75, x_values>>
figure == <<fig, ax1, ax2, image, shown>>
report == <<statistic, p_value, stdout>>
vars == <<files, pc, fault, tables, series, figure, report>>

\* A panel: what was drawn on it and how its axes are set.
NoAxes == [artists |-> <<>>, yscale |-> "linear", xlabel |-> "", ylabel |-> "",
           title |-> ""]

Init ==
    /\ files \in FileSystems
    /\ pc = "load_r_conv"
    /\ fault = "none"
    /\ r_conv = NoTable /\ py_conv = NoTable
    /\ r_summary = NoTable /\ py_summary = NoTable
    /\ fig = FALSE /\ ax1 = NoAxes /\ ax2 = NoAxes
    /\ r_median = <<>> /\ r_q25 = <<>> /\ r_q75 = <<>>
    /\ py_median = <<>> /\ py_q25 = <<>> /\ py_q75 = <<>>
    /\ x_values = <<>>
    /\ image = FALSE /\ shown = FALSE
    /\ statistic = NaN /\ p_value = NaN
    /\ stdout = <<>>

\* An exception nothing catches: the run ends where it is.
Abort(e) == pc' = "aborted" /\ fault' = e

\* ------------------------------------------------------------ Data Loader
\* The file each load statement reads.
LoadFile ==
    [load_r_conv |-> "r_conv", load_py_conv |-> "py_conv",
     load_r_summary |-> "r_summary", load_py_summary |-> "py_summary"]

\* pd.read_csv(path) of a file that exists.
ReadCsv(f) == files[f].table

LoadRConv ==
    /\ pc = "load_r_conv" /\ files["r_conv"].present
    /\ r_conv' = ReadCsv("r_conv")
    /\ pc' = "load_py_conv"
    /\ UNCHANGED <<files, fault, py_conv, r_summary, py_summary, series, figure, report>>

LoadPyConv ==
    /\ pc = "load_py_conv" /\ files["py_conv"].present
    /\ py_conv' = ReadCsv("py_conv")
    /\ pc' = "load_r_summary"
    /\ UNCHANGED <<files, fault, r_conv, r_summary, py_summary, series, figure, report>>

LoadRSummary ==
    /\ pc = "load_r_summary" /\ files["r_summary"].present
    /\ r_summary' = ReadCsv("r_summary")
    /\ pc' = "load_py_summary"
    /\ UNCHANGED <<files, fault, r_conv, py_conv, py_summary, series, figure, report>>

LoadPySummary ==
    /\ pc = "load_py_summary" /\ files["py_summary"].present
    /\ py_summary' = ReadCsv("py_summary")
    /\ pc' = "align_conv"
    /\ UNCHANGED <<files, fault, r_conv, py_conv, r_summary, series, figure, report>>

\* A missing file skipped instead of raised on: the run goes on to align
\* whatever was loaded.
LoadMissingSkipped ==
    /\ pc \in DOMAIN LoadFile
    /\ ~files[LoadFile[pc]].present
    /\ pc' = "align_conv"
    /\ UNCHANGED <<files, fault, tables, series, figure, report>>

\* pd.read_csv(path) of a file that does not exist raises.
LoadMissing ==
    /\ pc \in DOMAIN LoadFile
    /\ ~files[LoadFile[pc]].present
    /\ Abort("FileNotFoundError")
    /\ UNCHANGED <<files, tables, series, figure, report>>

\* ---------------------------------------------------------------- Aligner
\* Alignment that trims the columns but forgets the rows.
AlignedConvColsOnly(a, b) ==
    ILocTable(a, NRows(a), Min2(NCols(a), NCols(b)))

\* Alignment that keeps the last rows instead of the first: a.iloc[-n:].
AlignedConvTrailing(a, b) ==
    LET n == Min2(NRows(a), NRows(b))
        m == Min2(NCols(a), NCols(b))
    IN  [columns |-> Prefix(a.columns, m),
         rows    |-> [i \in 1..n |-> Prefix(a.rows[NRows(a) - n + i], m)]]

\* Table a trimmed against table b: a.iloc[:min rows, :min columns].
AlignedConv(a, b) ==
    ILocTable(a, Min2(NRows(a), NRows(b)), Min2(NCols(a), NCols(b)))

\* Table a trimmed against table b: a.iloc[:min rows].
AlignedSummary(a, b) == ILocRows(a, Min2(NRows(a), NRows(b)))

AlignConv ==
    /\ pc = "align_conv"
    /\ r_conv' = AlignedConv(r_conv, py_conv)
    /\ py_conv' = AlignedConv(py_conv, r_conv)
    /\ pc' = "align_summary"
    /\ UNCHANGED <<files, fault, r_summary, py_summary, series, figure, report>>

AlignSummary ==
    /\ pc = "align_summary"
    /\ r_summary' = AlignedSummary(r_summary, py_summary)
    /\ py_summary' = AlignedSummary(py_summary, r_summary)
    /\ pc' = "subplots"
    /\ UNCHANGED <<files, fault, r_conv, py_conv, series, figure, report>>

\* ----------------------------------------------------- Statistics Reducer
\* plt.subplots(1, 2, ...): the figure and its two empty panels.
Subplots ==
    /\ pc = "subplots"
    /\ fig' = TRUE /\ ax1' = NoAxes /\ ax2' = NoAxes
    /\ pc' = "reduce"
    /\ UNCHANGED <<files, fault, tables, series, image, shown, report>>

\* df.median(axis=1).dropna()
MedianSeries(t) == DropNa(DfMedian(t))
\* df.quantile(quarters/4, axis=1).dropna()
QuantileSeries(t, quarters) == DropNa(DfQuantile(t, quarters))

Reduce ==
    /\ pc = "reduce"
    /\ r_median' = MedianSeries(r_conv)
    /\ r_q25' = QuantileSeries(r_conv, 1)
    /\ r_q75' = QuantileSeries(r_conv, 3)
    /\ py_median' = MedianSeries(py_conv)
    /\ py_q25' = QuantileSeries(py_conv, 1)
    /\ py_q75' = QuantileSeries(py_conv, 3)
    /\ pc' = "trim"
    /\ UNCHANGED <<files, fault, tables, x_values, figure, report>>

\* The common length taken over the first source's series only.
min_conv_len_r ==
    MinOf(<<Len(r_median), Len(r_q25), Len(r_q75)>>)

min_conv_len ==
    MinOf(<<Len(r_median), Len(py_median), Len(r_q25), Len(r_q75),
            Len(py_q25), Len(py_q75)>>)

Trim ==
    /\ pc = "trim"
    /\ r_median' = ILoc(r_median, min_conv_len)
    /\ r_q25' = ILoc(r_q25, min_conv_len)
    /\ r_q75' = ILoc(r_q75, min_conv_len)
    /\ py_median' = ILoc(py_median, min_conv_len)
    /\ py_q25' = ILoc(py_q25, min_conv_len)
    /\ py_q75' = ILoc(py_q75, min_conv_len)
    /\ x_values' = Range(min_conv_len)
    /\ pc' = "plot_conv"
    /\ UNCHANGED <<files, fault, tables, figure, report>>

\* ----------------------------------------------------------- Plot Renderer
\* ax.plot(x, y, ...): a curve.
Line(x, y, label) == [kind |-> "line", x |-> x, y |-> y, y2 |-> <<>>, label |-> label]
\* ax.fill_between(x, y, y2, ...): a band.
Band(x, y, y2, color) == [kind |-> "band", x |-> x, y |-> y, y2 |-> y2, label |-> color]
\* One box of ax.boxplot(data, labels=...).
Box(y, label) == [kind |-> "box", x |-> <<>>, y |-> y, y2 |-> <<>>, label |-> label]

\* matplotlib refuses x and y of different lengths.
SameShape == \A s \in {r_median, r_q25, r_q75, py_median, py_q25, py_q75} :
                 Len(s) = Len(x_values)

PlotConvergence ==
    /\ pc = "plot_conv"
    /\ IF SameShape
       THEN /\ ax1' = [artists |->
                         << Line(x_values, Values(r_median), "R Implementation"),
                            Band(x_values, Values(r_q25), Values(r_q75), "blue"),
                            Line(x_values, Values(py_median), "Python Implementation"),
                            Band(x_values, Values(py_q25), Values(py_q75), "red") >>,
                       yscale |-> "log",
                       xlabel |-> "Iterations",
                       ylabel |-> "Best Fitness",
                       title  |-> "Convergence Comparison: CEC2017 F1 (10D)"]
            /\ pc' = "boxplot"
            /\ fault' = fault
       ELSE /\ Abort("ValueError")
            /\ ax1' = ax1
    /\ UNCHANGED <<files, tables, series, fig, ax2, image, shown, report>>

\* Both summary tables answer ["final_fitness"].
HasFinalFitness ==
    HasColumn(r_summary, "final_fitness") /\ HasColumn(py_summary, "final_fitness")

BoxPlot ==
    /\ pc = "boxplot"
    /\ HasFinalFitness
    /\ ax2' = [artists |->
                 << Box(Column(r_summary, "final_fitness"), "R Implementation"),
                    Box(Column(py_summary, "final_fitness"), "Python Implementation") >>,
               yscale |-> "log",
               xlabel |-> "",
               ylabel |-> "Final Best Fitness",
               title  |-> "Final Results Distribution"]
    /\ pc' = "savefig"
    /\ UNCHANGED <<files, fault, tables, series, fig, ax1, image, shown, report>>

\* The lookup fault swallowed: the run goes on to save the figure.
BoxPlotKeyErrorSwallowed ==
    /\ pc = "boxplot"
    /\ ~HasFinalFitness
    /\ pc' = "savefig"
    /\ UNCHANGED <<files, fault, tables, series, figure, report>>

\* df["final_fitness"] of a table without that column raises.
BoxPlotKeyError ==
    /\ pc = "boxplot"
    /\ ~HasFinalFitness
    /\ Abort("KeyError")
    /\ UNCHANGED <<files, tables, series, figure, report>>

\* plt.tight_layout(); plt.savefig(...); plt.show()
SaveShow ==
    /\ pc = "savefig"
    /\ image' = TRUE
    /\ shown' = TRUE
    /\ pc' = "wilcoxon"
    /\ UNCHANGED <<files, fault, tables, series, fig, ax1, ax2, report>>

\* ------------------------------------------------------ Hypothesis Tester
\* The significance level of the printed verdict, in thousandths.
Alpha == 50

\* The p-values, in thousandths, a test with a non-zero difference is let
\* return: below, at and above Alpha.
PValues == {10, Alpha, 1000}

Abs(n) == IF n < 0 THEN 0 - n ELSE n

\* x - y, element by element, of two columns of equal length.
Differences(x, y) == [i \in 1..Len(x) |-> x[i].v - y[i].v]

AllZero(d) == \A i \in 1..Len(d) : d[i] = 0

RECURSIVE SumOver(_, _)
SumOver(f, n) == IF n = 0 THEN 0 ELSE f[n] + SumOver(f, n - 1)

\* The signed-rank statistic min(W+, W-) of the non-zero differences
\* (zero_method "wilcox" drops the zeros), tied |d| sharing their average
\* rank.  In quarter units.
SignedRank(d) ==
    LET nz      == {i \in 1..Len(d) : d[i] # 0}
        rank2(i) == Cardinality({j \in nz : Abs(d[j]) < Abs(d[i])})
                    + Cardinality({j \in nz : Abs(d[j]) <= Abs(d[i])}) + 1
        plus    == [i \in 1..Len(d) |-> IF d[i] > 0 THEN rank2(i) ELSE 0]
        minus   == [i \in 1..Len(d) |-> IF d[i] < 0 THEN rank2(i) ELSE 0]
    IN  2 * Min2(SumOver(plus, Len(d)), SumOver(minus, Len(d)))

\* What scipy.stats.wilcoxon(x, y) may return.  With no non-zero difference
\* the test is undefined: an implementation that returns at all returns an
\* undefined p-value.  Otherwise the statistic is the signed-rank sum and
\* the p-value one of PValues.
WilcoxonResults(x, y) ==
    LET d == Differences(x, y)
    IN  IF AllZero(d)
        THEN { [statistic |-> st, p_value |-> NaN] : st \in {NaN, Num(0)} }
        ELSE { [statistic |-> Num(SignedRank(d)), p_value |-> Num(p)] : p \in PValues }

\* The exception the call raises before any test is computed, or "none".
WilcoxonArgFault ==
    IF ~HasFinalFitness THEN "KeyError"
    ELSE IF NRows(r_summary) # NRows(py_summary) THEN "ValueError"
    ELSE "none"

Wilcoxon ==
    /\ pc = "wilcoxon"
    /\ IF WilcoxonArgFault # "none"
       THEN /\ Abort(WilcoxonArgFault)
            /\ UNCHANGED <<statistic, p_value>>
       ELSE /\ \E res \in WilcoxonResults(Column(r_summary, "final_fitness"),
                                          Column(py_summary, "final_fitness")) :
                   /\ statistic' = res.statistic
                   /\ p_value' = res.p_value
            /\ pc' = "print"
            /\ fault' = fault
    /\ UNCHANGED <<files, tables, series, figure, stdout>>

\* With no non-zero difference an implementation may instead refuse:
\* "zero_method 'wilcox' and 'pratt' do not work if x - y is zero for all
\* elements".
WilcoxonAllZero ==
    /\ pc = "wilcoxon"
    /\ WilcoxonArgFault = "none"
    /\ AllZero(Differences(Column(r_summary, "final_fitness"),
                           Column(py_summary, "final_fitness")))
    /\ Abort("ValueError")
    /\ UNCHANGED <<files, tables, series, figure, report>>

\* 'Yes' if p_value < 0.05 else 'No': a comparison with NaN is false.
Significant(p) == p.def /\ p.v < Alpha

\* One printed line: its fixed text and the number formatted into it.
Text(t) == [text |-> t, num |-> <<>>]
Number(t, n) == [text |-> t, num |-> <<n>>]

PrintReport ==
    /\ pc = "print"
    /\ stdout' = stdout \o
         << Text("=== STATISTICAL COMPARISON ==="),
            Text("Wilcoxon signed-rank test:"),
            Number("Statistic: ", statistic),
            Number("P-value: ", p_value),
            Text(IF Significant(p_value) THEN "Significant difference: Yes"
                                         ELSE "Significant difference: No"),
            Number("R Implementation - Median: ",
                   Median(Column(r_summary, "final_fitness"))),
            Number("Python Implementation - Median: ",
                   Median(Column(py_summary, "final_fitness"))) >>
    /\ pc' = "done"
    /\ UNCHANGED <<files, fault, tables, series, figure, statistic, p_value>>

\* ---------------------------------------------------------- specification
Next ==
    \/ LoadRConv \/ LoadPyConv \/ LoadRSummary \/ LoadPySummary \/ LoadMissing
    \/ AlignConv \/ AlignSummary
    \/ Subplots \/ Reduce \/ Trim
    \/ PlotConvergence \/ BoxPlot \/ BoxPlotKeyError \/ SaveShow
    \/ Wilcoxon \/ WilcoxonAllZero
    \/ PrintReport

Spec == Init /\ [][Next]_vars

\* ================================================================ claims
\* The tables as the files hold them, before any trimming.
InRConv == files["r_conv"].table
InPyConv == files["py_conv"].table
InRSummary == files["r_summary"].table
InPySummary == files["py_summary"].table

AllFilesPresent == \A f \in FileNames : files[f].present

\* Where the run is: past the load, past each alignment, past the reduction,
\* past the final trimming, past the drawing of the convergence panel.
Loaded == pc \notin DOMAIN LoadFile /\ fault # "FileNotFoundError"
ConvAligned == Loaded /\ pc # "align_conv"
SummaryAligned == ConvAligned /\ pc # "align_summary"
Reduced == SummaryAligned /\ pc \notin {"subplots", "reduce"}
Trimmed == Reduced /\ pc # "trim"
ConvergenceDrawn == ax1.artists # <<>>

SixSeries == <<r_median, r_q25, r_q75, py_median, py_q25, py_q75>>

\* Row i (1-based) of table t has a defined cell.
SomeDefined(t, i) == \E j \in 1..NCols(t) : t.rows[i][j].def

\* The labels (0-based) of the rows of t with a defined cell, ascending.
KeptRows(t) == SelectSeq(Range(NRows(t)), LAMBDA k : SomeDefined(t, k + 1))

Labels(s) == [i \in 1..Len(s) |-> s[i].idx]

\* ---- C1
\* C1: after the alignment step both convergence tables have min(rows) rows
\* and min(columns) columns of the two files, every row being that wide, and
\* both summary tables have min(rows) rows of the two summary files.
C1_AlignedShapes ==
    /\ ConvAligned =>
         /\ NRows(r_conv) = Min2(NRows(InRConv), NRows(InPyConv))
         /\ NRows(py_conv) = NRows(r_conv)
         /\ NCols(r_conv) = Min2(NCols(InRConv), NCols(InPyConv))
         /\ NCols(py_conv) = NCols(r_conv)
         /\ \A i \in 1..NRows(r_conv) :
               Len(r_conv.rows[i]) = NCols(r_conv) /\ Len(py_conv.rows[i]) = NCols(r_conv)
    /\ SummaryAligned =>
         /\ NRows(r_summary) = Min2(NRows(InRSummary), NRows(InPySummary))
         /\ NRows(py_summary) = NRows(r_summary)

\* The scenario's shape: one file has more rows, the other more columns, and
\* both were cut.
C1_Witness ==
    /\ pc = "subplots"
    /\ NRows(InRConv) > NRows(InPyConv)
    /\ NCols(InRConv) < NCols(InPyConv)
    /\ NRows(r_conv) = NRows(InPyConv) /\ NCols(py_conv) = NCols(InRConv)
    /\ NRows(r_conv) > 0

\* ---- C8
\* Table out is the top-left block of table src: same leading column names,
\* every retained cell where it was.
LeadingBlock(out, src) ==
    /\ NRows(out) <= NRows(src) /\ NCols(out) <= NCols(src)
    /\ \A j \in 1..NCols(out) : out.columns[j] = src.columns[j]
    /\ \A i \in 1..NRows(out) :
          /\ Len(out.rows[i]) = NCols(out)
          /\ \A j \in 1..NCols(out) : out.rows[i][j] = src.rows[i][j]

\* Table src is no larger than table other in either direction.
FitsIn(src, other) == NRows(src) <= NRows(other) /\ NCols(src) <= NCols(other)

\* C8: each aligned table is the leading block of the table its file holds,
\* and a table that already has the minimum shape comes back unchanged.
C8_LeadingBlock ==
    /\ ConvAligned =>
         /\ LeadingBlock(r_conv, InRConv)
         /\ LeadingBlock(py_conv, InPyConv)
         /\ FitsIn(InRConv, InPyConv) => r_conv = InRConv
         /\ FitsIn(InPyConv, InRConv) => py_conv = InPyConv
    /\ SummaryAligned =>
         /\ LeadingBlock(r_summary, InRSummary)
         /\ LeadingBlock(py_summary, InPySummary)
         /\ NRows(InRSummary) <= NRows(InPySummary) => r_summary = InRSummary
         /\ NRows(InPySummary) <= NRows(InRSummary) => py_summary = InPySummary

\* One table lost its last row, which differed from its first; the other
\* came back as it was.
C8_Witness ==
    /\ pc = "align_summary"
    /\ NRows(r_conv) >= 1
    /\ NRows(InRConv) > NRows(r_conv)
    /\ InRConv.rows[1] # InRConv.rows[NRows(InRConv)]
    /\ py_conv = InPyConv

\* ---- C9
\* C9: between the reduction and the final trimming, the median, q25 and q75
\* series of a source carry exactly the labels of the rows of its aligned
\* table that have a defined cell, so the three are equally long.
C9_DroppedRows ==
    pc = "trim" =>
      /\ \A s \in {r_median, r_q25, r_q75} :
            Labels(s) = KeptRows(r_conv) /\ \A i \in 1..Len(s) : s[i].val.def
      /\ \A s \in {py_median, py_q25, py_q75} :
            Labels(s) = KeptRows(py_conv) /\ \A i \in 1..Len(s) : s[i].val.def

\* A first row that lost its only defined cell to the column trimming is
\* dropped, the row after it is kept.
C9_Witness ==
    /\ pc = "trim"
    /\ NRows(r_conv) >= 2
    /\ SomeDefined(InRConv, 1) /\ ~SomeDefined(r_conv, 1)
    /\ Len(r_median) < NRows(r_conv)
    /\ Len(r_median) > 0

\* ---- C2
\* C2: after the final trimming the six series are equally long and x_values
\* is 0..L-1 for that length L; what is drawn has that length too.
C2_EqualLengths ==
    /\ Trimmed =>
         /\ \A i \in 1..6 : Len(SixSeries[i]) = Len(x_values)
         /\ x_values = Range(Len(r_median))
    /\ ConvergenceDrawn =>
         \A k \in 1..Len(ax1.artists) :
            /\ ax1.artists[k].x = x_values
            /\ Len(ax1.artists[k].y) = Len(x_values)
            /\ ax1.artists[k].kind = "band" => Len(ax1.artists[k].y2) = Len(x_values)

\* The two sources kept different numbers of rows, and the longer one was
\* cut to the shorter.
C2_Witness ==
    /\ pc = "boxplot"
    /\ Len(MedianSeries(py_conv)) < Len(MedianSeries(r_conv))
    /\ Len(MedianSeries(py_conv)) < NRows(py_conv)
    /\ Len(x_values) > 0

\* ---- C3
\* C3: at every position of the trimmed series of a source,
\* q25 <= median <= q75.
C3_QuartileOrder ==
    Trimmed =>
      /\ \A i \in 1..Len(r_median) :
            i <= Len(r_q25) /\ i <= Len(r_q75) =>
               r_q25[i].val.v <= r_median[i].val.v /\ r_median[i].val.v <= r_q75[i].val.v
      /\ \A i \in 1..Len(py_median) :
            i <= Len(py_q25) /\ i <= Len(py_q75) =>
               py_q25[i].val.v <= py_median[i].val.v /\ py_median[i].val.v <= py_q75[i].val.v

\* A row of distinct unsorted values survives the dropping of an undefined
\* row before it and the trimming of the other source.
C3_Witness ==
    /\ pc = "boxplot"
    /\ \E i \in 1..Len(r_median) :
          r_q25[i].val.v < r_median[i].val.v /\ r_median[i].val.v < r_q75[i].val.v
    /\ NRows(r_conv) >= 2 /\ ~SomeDefined(r_conv, 1)
    /\ Len(py_median) < Len(MedianSeries(py_conv))

\* ---- C10
\* C10: what is drawn at x = i for either source was computed from row i of
\* that source's aligned table.
C10_SameIteration ==
    ConvergenceDrawn =>
      \A i \in 1..Len(x_values) :
         LET k == x_values[i] + 1
         IN  /\ ax1.artists[1].y[i] = Median(r_conv.rows[k])
             /\ ax1.artists[2].y[i] = Quantile(r_conv.rows[k], 1)
             /\ ax1.artists[2].y2[i] = Quantile(r_conv.rows[k], 3)
             /\ ax1.artists[3].y[i] = Median(py_conv.rows[k])
             /\ ax1.artists[4].y[i] = Quantile(py_conv.rows[k], 1)
             /\ ax1.artists[4].y2[i] = Quantile(py_conv.rows[k], 3)

\* ---- C7
SomeFileMissing == \E f \in FileNames : ~files[f].present

\* C7: with a file missing the run never leaves the load step other than by
\* the file-access fault: nothing is aligned, reduced, drawn, written, shown
\* or printed.
C7_MissingFileAborts ==
    SomeFileMissing =>
      /\ pc \in DOMAIN LoadFile \cup {"aborted"}
      /\ pc = "aborted" => fault = "FileNotFoundError"
      /\ r_conv \in {NoTable, InRConv} /\ py_conv \in {NoTable, InPyConv}
      /\ r_summary \in {NoTable, InRSummary} /\ py_summary \in {NoTable, InPySummary}
      /\ \A i \in 1..6 : SixSeries[i] = <<>>
      /\ ~fig /\ ax1 = NoAxes /\ ax2 = NoAxes
      /\ ~image /\ ~shown
      /\ stdout = <<>>

\* The last of the four files is the missing one: three tables were loaded
\* and the run has ended.
C7_Witness ==
    /\ pc = "aborted" /\ fault = "FileNotFoundError"
    /\ ~files["py_summary"].present
    /\ files["r_conv"].present /\ files["py_conv"].present /\ files["r_summary"].present
    /\ r_summary = InRSummary /\ r_summary # NoTable

\* ---- C4
LacksFinalFitness ==
    /\ AllFilesPresent
    /\ \/ ~HasColumn(InRSummary, "final_fitness")
       \/ ~HasColumn(InPySummary, "final_fitness")

\* C4 as stated: the column-not-found fault ends the run with no figure
\* created or drawn on, no image written, nothing shown, nothing printed.
C4_NoFigureAtAll ==
    LacksFinalFitness =>
      /\ pc \notin {"savefig", "wilcoxon", "print", "done"}
      /\ pc = "aborted" =>
           /\ fault = "KeyError"
           /\ ~fig /\ ax1 = NoAxes /\ ax2 = NoAxes
           /\ ~image /\ ~shown /\ stdout = <<>>

\* C4 as amended: the column-not-found fault ends the run at the box plot,
\* after the figure was created and the convergence panel drawn, with no
\* box drawn, no image written, nothing shown and nothing printed.
C4_FaultBeforeSave ==
    LacksFinalFitness =>
      /\ pc \notin {"savefig", "wilcoxon", "print", "done"}
      /\ ~image /\ ~shown /\ stdout = <<>> /\ ax2 = NoAxes
      /\ pc = "aborted" =>
           /\ fault = "KeyError"
           /\ fig /\ Len(ax1.artists) = 4 /\ ax1.yscale = "log"

\* Only the second summary file lacks the column, and the run has ended.
C4_Witness ==
    /\ pc = "aborted" /\ fault = "KeyError"
    /\ HasColumn(r_summary, "final_fitness")
    /\ ~HasColumn(py_summary, "final_fitness")
    /\ NRows(r_summary) > 0
    /\ fig /\ ~image

\* ---- C5
IdenticalFinalFitness ==
    /\ AllFilesPresent
    /\ HasColumn(InRSummary, "final_fitness")
    /\ HasColumn(InPySummary, "final_fitness")
    /\ NRows(InRSummary) > 0
    /\ Column(InRSummary, "final_fitness") = Column(InPySummary, "final_fitness")

\* C5: with identical final_fitness columns the run does not fault, the
\* p-value is 1.0 and the printed verdict is No.
C5_IdenticalNotSignificant ==
    IdenticalFinalFitness =>
      /\ fault = "none"
      /\ pc \in {"print", "done"} => p_value = Num(1000)
      /\ pc = "done" =>
           /\ stdout[4] = Number("P-value: ", Num(1000))
           /\ stdout[5] = Text("Significant difference: No")

====
